---- MODULE Spec2Model ----
(***************************************************************************)
(* The incremental data-update job of the WNBA predictor (update_data.py)  *)
(* and the serving path's reader of the store file (app.py).               *)
(*                                                                         *)
(* Values are kept with the Python/pandas type that decides how they       *)
(* compare: an identifier is a pair (type tag, digits), a missing value    *)
(* (None / NaN) is a sentinel of the column's own type.  A rolling mean is *)
(* kept exactly, as the integer MeanScale * sum / count (MeanScale is a    *)
(* multiple of every possible count 1..10).                                *)
(***************************************************************************)
EXTENDS Integers, Sequences, FiniteSets, TLC

VARIABLES
    pc,              \* position of the batch job in __main__
    run,             \* which invocation of the job this is (1..MaxRuns)
    store_exists,    \* whether wnba_data_for_app.csv exists
    store_file,      \* the rows of wnba_data_for_app.csv as they are on disk
    name_col,        \* whether the store file has a player_name column
    historical_df,   \* update_data.py:55
    new_data_raw,    \* update_data.py:65
    new_game_logs,   \* update_data.py:69
    combined_df,     \* update_data.py:75
    updated_df,      \* update_data.py:81
    exit_status,     \* the process exit status of the finished run
    run_start_file,  \* history: store_file when the current run started
    writes,          \* history: how many runs have written the store so far
    reader_view      \* what load_historical_data of app.py returned

vars == << pc, run, store_exists, store_file, name_col, historical_df,
           new_data_raw, new_game_logs, combined_df, updated_df, exit_status,
           run_start_file, writes, reader_view >>

----------------------------------------------------------------------------
(* Bounds of the model *)

\* successive invocations of the batch job
MaxRuns == 2
\* rows of the store file the first run finds
MaxStore == 2
\* athletes in the roster of the fetched event (job specification)
MaxRoster == 1
\* athletes in a roster handed to the parser alone
MaxParseRoster == 2
\* rows of the store handed to the merge alone
MaxMergeStore == 2
\* game logs handed to the merge alone
MaxMergeLogs == 2
\* rows of an arbitrary frame handed to update_features alone
MaxFrame == 3
\* rows of a long single-series frame handed to update_features alone
MaxSeries == 12

----------------------------------------------------------------------------
(* Values *)

\* NaN / None in a numeric column
NaN == 0 - 1
\* NaN / None in a text column
NoText == "NaN"
\* the marker of a column the frame does not have
NoColumn == "-"
\* None where an identifier was expected
NoId == [t |-> "none", v |-> 0]

StrId(v) == [t |-> "str", v |-> v]
IntId(v) == [t |-> "int", v |-> v]

Stats == <<"points", "rebounds", "assists">>
Windows == <<3, 5, 10>>
StatSet == {Stats[i] : i \in 1..Len(Stats)}
WindowSet == {Windows[i] : i \in 1..Len(Windows)}
Features == StatSet \X WindowSet

\* a multiple of every count a window of at most 10 rows can have
MeanScale == 8 * 9 * 5 * 7

Max(a, b) == IF a >= b THEN a ELSE b
Min(a, b) == IF a <= b THEN a ELSE b

RECURSIVE SumSeq(_)
SumSeq(s) == IF s = <<>> THEN 0 ELSE Head(s) + SumSeq(Tail(s))

RECURSIVE Flatten(_)
Flatten(ss) == IF ss = <<>> THEN <<>> ELSE Head(ss) \o Flatten(Tail(ss))

\* all sequences over S of length at most n
SeqUpTo(S, n) == UNION {[1..k -> S] : k \in 0..n}

NoFeatures == [f \in Features |-> NaN]

----------------------------------------------------------------------------
(* get_game_data_for_date: the payload, or None on any failure *)

FetchFailed == [ok |-> FALSE, events |-> <<>>, season |-> NaN]
Payload(events, season) == [ok |-> TRUE, events |-> events, season |-> season]

\* one entry of an athlete's stats array: numeric text or not
Num(v) == [num |-> TRUE, v |-> v]
NotNum == [num |-> FALSE, v |-> 0]

\* a key of a JSON object that may be absent: .get(key, default)
Absent == [present |-> FALSE, list |-> <<>>]
Present(list) == [present |-> TRUE, list |-> list]

Athlete(id, statistics) == [id |-> id, statistics |-> statistics]
Competition(date, rosters) == [date |-> date, competitors |-> rosters]
Event(id, competitions) == [id |-> id, competitions |-> competitions]

----------------------------------------------------------------------------
(* parse_espn_data *)

\* what the loop body does for one athlete of a roster:
\* "IndexError", "TypeError", "ValueError" (raised), "skip" or "append"
AthleteStep(athlete) ==
    IF athlete.statistics.present /\ athlete.statistics.list = <<>>
    THEN "IndexError"
    ELSE LET stats == IF athlete.statistics.present
                      THEN athlete.statistics.list[1]
                      ELSE <<>>
         IN  IF Len(stats) < 3 THEN "skip"
             ELSE IF athlete.id.t = "none" THEN "TypeError"
             ELSE IF \E k \in 1..3 : ~stats[k].num THEN "ValueError"
             ELSE "append"

Raises(step) == step \in {"IndexError", "TypeError", "ValueError"}

\* the dict appended for one athlete (update_data.py:31-39); the frame built
\* from it has no feature columns and no player_name column
GameLog(raw, game, competition, athlete) ==
    LET stats == athlete.statistics.list[1]
    IN  [ game_id      |-> game.id,
          athlete_id_1 |-> athlete.id.v,
          season       |-> raw.season,
          game_date    |-> competition.date,
          points       |-> stats[1].v,
          rebounds     |-> stats[2].v,
          assists      |-> stats[3].v ]

\* the competition a game is read from: competitions[0], {} when the key is
\* absent; an empty competitions list raises
GameRaises(game) == game.competitions.present /\ game.competitions.list = <<>>
GameCompetition(game) ==
    IF game.competitions.present
    THEN game.competitions.list[1]
    ELSE [date |-> NaN, competitors |-> <<>>]

GameAthletes(game) == Flatten(GameCompetition(game).competitors)

GameLogs(raw, game) ==
    LET athletes == GameAthletes(game)
        kept == SelectSeq(athletes, LAMBDA a : AthleteStep(a) = "append")
    IN  [i \in 1..Len(kept) |->
            GameLog(raw, game, GameCompetition(game), kept[i])]

\* the result of the call: raised (the exception leaves the function and the
\* list built so far is lost), or the list of game logs
parse_espn_data(raw) ==
    LET games == raw.events
        raised ==
            \E g \in 1..Len(games) :
                \/ GameRaises(games[g])
                \/ /\ ~GameRaises(games[g])
                   /\ \E a \in 1..Len(GameAthletes(games[g])) :
                        Raises(AthleteStep(GameAthletes(games[g])[a]))
    IN  IF raised
        THEN [raised |-> TRUE, logs |-> <<>>]
        ELSE [raised |-> FALSE,
              logs |-> Flatten([g \in 1..Len(games) |-> GameLogs(raw, games[g])])]

----------------------------------------------------------------------------
(* The store file and the frames *)

\* pd.DataFrame(new_game_logs) placed under the columns of the concatenated
\* frame: a column the new rows do not have is NaN in them
NewLogRow(log, has_name) ==
    [ game_id      |-> log.game_id,
      athlete_id_1 |-> log.athlete_id_1,
      season       |-> log.season,
      game_date    |-> log.game_date,
      points       |-> log.points,
      rebounds     |-> log.rebounds,
      assists      |-> log.assists,
      player_name  |-> IF has_name THEN NoText ELSE NoColumn,
      feat         |-> NoFeatures ]

\* DataFrame.to_csv, one row: every cell becomes text, so the identifier's
\* Python type is not recorded in the file
CsvRow(row) ==
    [ game_id      |-> row.game_id.v,
      athlete_id_1 |-> row.athlete_id_1,
      season       |-> row.season,
      game_date    |-> row.game_date,
      points       |-> row.points,
      rebounds     |-> row.rebounds,
      assists      |-> row.assists,
      player_name  |-> row.player_name,
      feat         |-> row.feat ]

to_csv(df) == [i \in 1..Len(df) |-> CsvRow(df[i])]

\* pd.read_csv, one row: a column of digits is inferred as integers
FrameRow(cells) ==
    [ game_id      |-> IntId(cells.game_id),
      athlete_id_1 |-> cells.athlete_id_1,
      season       |-> cells.season,
      game_date    |-> cells.game_date,
      points       |-> cells.points,
      rebounds     |-> cells.rebounds,
      assists      |-> cells.assists,
      player_name  |-> cells.player_name,
      feat         |-> cells.feat ]

read_csv(rows) == [i \in 1..Len(rows) |-> FrameRow(rows[i])]

----------------------------------------------------------------------------
(* The merge: pd.concat([historical_df, new_logs_df]).drop_duplicates(...) *)

concat(old_df, logs, has_name) ==
    old_df \o [i \in 1..Len(logs) |-> NewLogRow(logs[i], has_name)]

\* the subset the duplicates are looked for on; two cells are the same when
\* the Python objects are equal, and the text '401' is not the integer 401
DedupKey(row) == << row.game_id, row.athlete_id_1 >>

\* keep='last': a row stays unless a later row has the same key
KeepLast(df, i) == ~\E j \in (i + 1)..Len(df) : DedupKey(df[j]) = DedupKey(df[i])

RECURSIVE Pick(_, _, _)
\* the rows of df whose position is in keep, in the order of df
Pick(df, keep, i) ==
    IF i > Len(df) THEN <<>>
    ELSE (IF i \in keep THEN <<df[i]>> ELSE <<>>) \o Pick(df, keep, i + 1)

drop_duplicates(df) == Pick(df, {i \in 1..Len(df) : KeepLast(df, i)}, 1)

merge(old_df, logs, has_name) == drop_duplicates(concat(old_df, logs, has_name))

----------------------------------------------------------------------------
(* update_features *)

\* order of sort_values(by=['athlete_id_1', 'game_date']): NaN dates last
DateLess(x, y) == x # NaN /\ (y = NaN \/ x < y)
\* the sort with game_date left out of `by`
RowLessByAthlete(a, b) == a.athlete_id_1 < b.athlete_id_1
RowLess(a, b) ==
    \/ a.athlete_id_1 < b.athlete_id_1
    \/ a.athlete_id_1 = b.athlete_id_1 /\ DateLess(a.game_date, b.game_date)

\* i placed into the sorted positions ord, after every row that is not greater
InsertSorted(df, ord, i) ==
    LET later == {p \in 1..Len(ord) : RowLess(df[i], df[ord[p]])}
        at == IF later = {} THEN Len(ord) + 1
              ELSE CHOOSE p \in later : \A q \in later : p <= q
    IN  SubSeq(ord, 1, at - 1) \o <<i>> \o SubSeq(ord, at, Len(ord))

RECURSIVE SortPrefix(_, _)
SortPrefix(df, n) ==
    IF n = 0 THEN <<>> ELSE InsertSorted(df, SortPrefix(df, n - 1), n)

\* the positions of df in sorted order (the sort is stable)
SortOrder(df) == SortPrefix(df, Len(df))

\* Series.shift(1)
shift(x) == [i \in 1..Len(x) |-> IF i = 1 THEN NaN ELSE x[i - 1]]

\* Series.rolling(window, min_periods=1).mean(): the mean of the values that
\* are not NaN among the last `window` entries, NaN when there is none
rolling_mean(x, window) ==
    [i \in 1..Len(x) |->
        LET lo == Max(1, i - window + 1)
            vals == SelectSeq(SubSeq(x, lo, i), LAMBDA v : v # NaN)
        IN  IF Len(vals) >= 1
            THEN (MeanScale * SumSeq(vals)) \div Len(vals)
            ELSE NaN]

\* the lambda without shift(1): the window ends at the row itself
NoShiftTransform(x, window) == rolling_mean(x, window)
\* the lambda with an expanding mean: the window is never cut to its size
ExpandingTransform(x, window) == rolling_mean(shift(x), Len(x))
\* the lambda handed to transform (update_data.py:48)
Transform(x, window) == rolling_mean(shift(x), window)

update_features(df) ==
    LET ord == SortOrder(df)
        sorted == [k \in 1..Len(df) |-> df[ord[k]]]
        \* groupby('athlete_id_1')[stat]: the stat of the rows of one athlete
        group(k, stat) ==
            LET rows == SelectSeq(sorted,
                    LAMBDA r : r.athlete_id_1 = sorted[k].athlete_id_1)
            IN  [i \in 1..Len(rows) |-> rows[i][stat]]
        \* the place of row k in its group
        place(k) == Cardinality({j \in 1..k :
                        sorted[j].athlete_id_1 = sorted[k].athlete_id_1})
    IN  [k \in 1..Len(df) |->
            [sorted[k] EXCEPT !.feat =
                [f \in Features |-> Transform(group(k, f[1]), f[2])[place(k)]]]]

----------------------------------------------------------------------------
(* DataFrame.dropna(): a row goes when any of its cells is missing *)

FeaturesDefined(row) == \A f \in Features : row.feat[f] # NaN

NoMissingCell(row) ==
    /\ row.game_id # NoId
    /\ row.season # NaN
    /\ row.game_date # NaN
    /\ row.player_name # NoText
    /\ FeaturesDefined(row)

\* dropna() without inplace=True, its result thrown away
DropNothing(df) == df
dropna(df) == SelectSeq(df, NoMissingCell)

----------------------------------------------------------------------------
(* Inputs *)

Athletes == {1, 2}
Season == 2024

\* the stats array of one athlete in one game, by how well the game went
StatLine(level) == << Num(10 * level), Num(4 + level), Num(2 * level + 1) >>

\* a row of a committed store file: no cell is missing
StoreRow(game, athlete, date, level, has_name) ==
    [ game_id      |-> game,
      athlete_id_1 |-> athlete,
      season       |-> Season,
      game_date    |-> date,
      points       |-> StatLine(level)[1].v,
      rebounds     |-> StatLine(level)[2].v,
      assists      |-> StatLine(level)[3].v,
      player_name  |-> IF has_name THEN "name" ELSE NoColumn,
      feat         |-> [f \in Features |-> 0] ]

\* --- the job: the store the first run finds, sorted and without duplicates
JobStoreRows(has_name) ==
    {StoreRow(g, a, g, 1, has_name) : g \in {1, 2}, a \in Athletes}

JobStores(has_name) ==
    {s \in SeqUpTo(JobStoreRows(has_name), MaxStore) :
        \A i \in 1..(Len(s) - 1) : RowLess(s[i], s[i + 1])}

\* --- the job: what the fetch can return
JobAthletes ==
    {Athlete(StrId(a), Present(<<StatLine(2)>>)) : a \in Athletes}
        \cup {Athlete(StrId(1), Present(<< <<Num(10), Num(5)>> >>)),
              Athlete(StrId(1), Present(<<>>))}

JobEvents ==
    {Event(id, Present(<<Competition(id.v, <<roster>>)>>)) :
        id \in {StrId(2), StrId(3), IntId(2), IntId(3)},
        roster \in SeqUpTo(JobAthletes, MaxRoster)}

JobPayloads ==
    {FetchFailed, Payload(<<>>, Season)}
        \cup {Payload(<<e>>, season) : e \in JobEvents, season \in {Season, NaN}}

----------------------------------------------------------------------------
(* The batch job, update_data.py __main__ *)

\* exit() without an argument
ExitCall == 0
\* the script runs to its end
ExitEnd == 0
\* an exception nothing catches
ExitTraceback == 1

Unread == [state |-> "unread", rows |-> <<>>]

Init ==
    /\ pc = "load"
    /\ run = 1
    /\ name_col \in BOOLEAN
    /\ store_exists \in BOOLEAN
    /\ store_file \in (IF store_exists THEN JobStores(name_col) ELSE {<<>>})
    /\ historical_df = <<>>
    /\ new_data_raw = FetchFailed
    /\ new_game_logs = <<>>
    /\ combined_df = <<>>
    /\ updated_df = <<>>
    /\ exit_status = NaN
    /\ run_start_file = store_file
    /\ writes = 0
    /\ reader_view = Unread

\* 1. Load existing data; a missing file prints a message and calls exit()
Load ==
    /\ pc = "load"
    /\ IF store_exists
       THEN /\ historical_df' = read_csv(store_file)
            /\ pc' = "fetch"
            /\ UNCHANGED exit_status
       ELSE /\ pc' = "exit_no_file"
            /\ exit_status' = ExitCall
            /\ UNCHANGED historical_df
    /\ UNCHANGED << run, store_exists, store_file, name_col, new_data_raw,
                    new_game_logs, combined_df, updated_df, run_start_file,
                    writes, reader_view >>

\* 2. Fetch yesterday's data: the payload, or None on any exception
get_game_data_for_date ==
    /\ pc = "fetch"
    /\ new_data_raw' \in JobPayloads
    /\ pc' = "fetched"
    /\ UNCHANGED << run, store_exists, store_file, name_col, historical_df,
                    new_game_logs, combined_df, updated_df, exit_status,
                    run_start_file, writes, reader_view >>

\* the condition of update_data.py:67
HasEvents(raw) == raw.ok /\ raw.events # <<>>

NoGames ==
    /\ pc = "fetched"
    /\ ~HasEvents(new_data_raw)
    /\ pc' = "done_no_games"
    /\ exit_status' = ExitEnd
    /\ UNCHANGED << run, store_exists, store_file, name_col, historical_df,
                    new_data_raw, new_game_logs, combined_df, updated_df,
                    run_start_file, writes, reader_view >>

\* 3. Parse; an exception of the parser is caught nowhere
Parse ==
    /\ pc = "fetched"
    /\ HasEvents(new_data_raw)
    /\ LET result == parse_espn_data(new_data_raw)
       IN  IF result.raised
           THEN /\ pc' = "crashed"
                /\ exit_status' = ExitTraceback
                /\ UNCHANGED new_game_logs
           ELSE /\ pc' = "parsed"
                /\ new_game_logs' = result.logs
                /\ UNCHANGED exit_status
    /\ UNCHANGED << run, store_exists, store_file, name_col, historical_df,
                    new_data_raw, combined_df, updated_df, run_start_file,
                    writes, reader_view >>

\* the branch without new logs saving the (empty) frame of the new logs
NoNewLogsSaves ==
    /\ pc = "parsed"
    /\ new_game_logs = <<>>
    /\ pc' = "done_no_logs"
    /\ exit_status' = ExitEnd
    /\ store_file' = <<>>
    /\ UNCHANGED << run, store_exists, name_col, historical_df,
                    new_data_raw, new_game_logs, combined_df, updated_df,
                    run_start_file, writes, reader_view >>

NoNewLogs ==
    /\ pc = "parsed"
    /\ new_game_logs = <<>>
    /\ pc' = "done_no_logs"
    /\ exit_status' = ExitEnd
    /\ UNCHANGED << run, store_exists, store_file, name_col, historical_df,
                    new_data_raw, new_game_logs, combined_df, updated_df,
                    run_start_file, writes, reader_view >>

\* Combine old and new, dropping duplicates
Merge ==
    /\ pc = "parsed"
    /\ new_game_logs # <<>>
    /\ combined_df' = merge(historical_df, new_game_logs, name_col)
    /\ pc' = "merged"
    /\ UNCHANGED << run, store_exists, store_file, name_col, historical_df,
                    new_data_raw, new_game_logs, updated_df, exit_status,
                    run_start_file, writes, reader_view >>

\* 4. Recalculate features
Recalculate ==
    /\ pc = "merged"
    /\ updated_df' = update_features(combined_df)
    /\ pc' = "featured"
    /\ UNCHANGED << run, store_exists, store_file, name_col, historical_df,
                    new_data_raw, new_game_logs, combined_df, exit_status,
                    run_start_file, writes, reader_view >>

DropNa ==
    /\ pc = "featured"
    /\ updated_df' = dropna(updated_df)
    /\ pc' = "commit"
    /\ UNCHANGED << run, store_exists, store_file, name_col, historical_df,
                    new_data_raw, new_game_logs, combined_df, exit_status,
                    run_start_file, writes, reader_view >>

\* to_csv opens the store file itself for writing, which empties it ...
WriteOpen ==
    /\ pc = "commit"
    /\ store_file' = <<>>
    /\ store_exists' = TRUE
    /\ pc' = "writing"
    /\ UNCHANGED << run, name_col, historical_df, new_data_raw, new_game_logs,
                    combined_df, updated_df, exit_status, run_start_file,
                    writes, reader_view >>

\* ... then writes the rows in order ...
WriteRow ==
    /\ pc = "writing"
    /\ Len(store_file) < Len(updated_df)
    /\ store_file' = Append(store_file, CsvRow(updated_df[Len(store_file) + 1]))
    /\ UNCHANGED << pc, run, store_exists, name_col, historical_df,
                    new_data_raw, new_game_logs, combined_df, updated_df,
                    exit_status, run_start_file, writes, reader_view >>

\* ... and closes it; the job prints its success message and ends
WriteClose ==
    /\ pc = "writing"
    /\ Len(store_file) = Len(updated_df)
    /\ pc' = "done_updated"
    /\ exit_status' = ExitEnd
    /\ writes' = writes + 1
    /\ UNCHANGED << run, store_exists, store_file, name_col, historical_df,
                    new_data_raw, new_game_logs, combined_df, updated_df,
                    run_start_file, reader_view >>

Terminal ==
    {"exit_no_file", "crashed", "done_no_games", "done_no_logs", "done_updated"}

\* the scheduler starts the job again
NextRun ==
    /\ pc \in Terminal
    /\ run < MaxRuns
    /\ run' = run + 1
    /\ pc' = "load"
    /\ historical_df' = <<>>
    /\ new_data_raw' = FetchFailed
    /\ new_game_logs' = <<>>
    /\ combined_df' = <<>>
    /\ updated_df' = <<>>
    /\ exit_status' = NaN
    /\ run_start_file' = store_file
    /\ UNCHANGED << store_exists, store_file, name_col, writes, reader_view >>

\* app.py: load_historical_data reads the store file once (it is cached)
load_historical_data ==
    /\ reader_view = Unread
    /\ reader_view' = IF store_exists
                      THEN [state |-> "data", rows |-> store_file]
                      ELSE [state |-> "none", rows |-> <<>>]
    /\ UNCHANGED << pc, run, store_exists, store_file, name_col, historical_df,
                    new_data_raw, new_game_logs, combined_df, updated_df,
                    exit_status, run_start_file, writes >>

Next ==
    \/ Load
    \/ get_game_data_for_date
    \/ NoGames
    \/ Parse
    \/ NoNewLogs
    \/ Merge
    \/ Recalculate
    \/ DropNa
    \/ WriteOpen
    \/ WriteRow
    \/ WriteClose
    \/ NextRun
    \/ load_historical_data

Spec == Init /\ [][Next]_vars

----------------------------------------------------------------------------
(* The parser alone: it is handed every payload of ParsePayloads *)

GoodAthlete(a, level) == Athlete(StrId(a), Present(<<StatLine(level)>>))

ParseStatistics ==
    { Absent,                                          \* no statistics entry
      Present(<<>>),                                   \* an empty statistics list
      Present(<< <<>> >>),                             \* no stats in the entry
      Present(<< <<Num(10), Num(5)>> >>),              \* fewer than three stats
      Present(<< <<Num(10), NotNum, Num(3)>> >>),      \* a non-numeric value
      Present(<< <<Num(10), Num(5), Num(3), NotNum>> >>),
      Present(<<StatLine(1)>>),
      Present(<<StatLine(2)>>) }

ParseAthletes ==
    {Athlete(id, st) : id \in {StrId(1), StrId(2), NoId}, st \in ParseStatistics}

\* a second event of the payload, or none
ParseOtherEvents ==
    { <<>>,
      <<Event(StrId(2), Present(<<Competition(2, << <<GoodAthlete(2, 1)>> >>)>>))>>,
      <<Event(StrId(2), Absent)>>,
      <<Event(StrId(2), Present(<<>>))>> }

ParsePayloads ==
    {Payload(<<>>, Season)} \cup
    {Payload(<<Event(StrId(1), Present(<<Competition(1, <<roster>> \o team)>>))>>
                \o other, season) :
        roster \in SeqUpTo(ParseAthletes, MaxParseRoster),
        team \in {<<>>, << <<GoodAthlete(2, 2)>> >>},
        other \in ParseOtherEvents,
        season \in {Season, NaN}}

Blank ==
    /\ run = 1
    /\ updated_df = <<>>
    /\ exit_status = NaN
    /\ run_start_file = store_file
    /\ writes = 0
    /\ reader_view = Unread

InitParse ==
    /\ pc = "fetched"
    /\ name_col = TRUE
    /\ store_exists = TRUE
    /\ store_file = <<>>
    /\ historical_df = <<>>
    /\ new_data_raw \in ParsePayloads
    /\ new_game_logs = <<>>
    /\ combined_df = <<>>
    /\ Blank

NextParse == NoGames \/ Parse

SpecParse == InitParse /\ [][NextParse]_vars

----------------------------------------------------------------------------
(* The merge alone: every store of MergeStores with every MergePayloads *)

MergeStoreRows(has_name) ==
    {StoreRow(g, a, 1, level, has_name) :
        g \in {1, 2}, a \in Athletes, level \in {1, 3}}

MergeStores(has_name) == SeqUpTo(MergeStoreRows(has_name), MaxMergeStore)

MergeRosters ==
    {r \in SeqUpTo({GoodAthlete(a, level) : a \in Athletes, level \in {2, 4}},
                   MaxMergeLogs) : r # <<>>}

MergePayloads ==
    {Payload(<<Event(id, Present(<<Competition(2, <<roster>>)>>))>>, Season) :
        id \in {StrId(1), StrId(2), IntId(1), IntId(2)},
        roster \in MergeRosters}

InitMerge ==
    /\ pc = "parsed"
    /\ name_col \in BOOLEAN
    /\ store_exists = TRUE
    /\ store_file \in MergeStores(name_col)
    /\ historical_df = read_csv(store_file)
    /\ new_data_raw \in MergePayloads
    /\ new_game_logs = parse_espn_data(new_data_raw).logs
    /\ combined_df = <<>>
    /\ Blank

NextMerge == Merge

SpecMerge == InitMerge /\ [][NextMerge]_vars

----------------------------------------------------------------------------
(* The feature engine and the drop alone.  A frame is a store (games 1, 2, *)
(* ... in the order of the file) followed by the logs of one payload (one   *)
(* event per log), so that no two rows share a key; the stats of a row are  *)
(* StatLine(its position), different in every row.                          *)

\* the store whose i-th row is of athlete who[i] on date when[i]
FrameStore(who, when, has_name) ==
    [i \in 1..Len(who) |-> StoreRow(i, who[i], when[i], i, has_name)]

\* the payload whose j-th event is a game of athlete who[j] on date when[j]
FramePayload(who, when, first_level, season) ==
    Payload([j \in 1..Len(who) |->
                Event(StrId(100 + j),
                      Present(<<Competition(when[j],
                          << <<GoodAthlete(who[j], first_level + j)>> >>)>>))],
            season)

FrameShape(who, when, old) ==
    [who |-> who, when |-> when, old |-> old]

\* arbitrary small frames: any athlete and date in any order of the rows
SmallShapes ==
    {FrameShape(who, when, old) :
        who \in SeqUpTo(Athletes, MaxFrame) \ {<<>>},
        when \in SeqUpTo({1, 2, 3, NaN}, MaxFrame) \ {<<>>},
        old \in 0..(MaxFrame - 1)}

\* the date of row i of a series of n rows
SeriesDate(order, i, n) ==
    CASE order = "ascending" -> i
      [] order = "descending" -> n + 1 - i
      [] order = "shuffled" -> ((5 * i) % n) + 1

\* long series: one or two athletes, dates in a fixed pattern
SeriesShapes ==
    {FrameShape([i \in 1..n |-> IF two THEN 1 + (i % 2) ELSE 1],
                [i \in 1..n |-> SeriesDate(order, i, n)],
                n - 1) :
        n \in 1..MaxSeries, two \in BOOLEAN,
        order \in {"ascending", "descending", "shuffled"}}

\* the rows of the store have a date; of the new rows, the last may have none
FrameShapes ==
    {sh \in SmallShapes \cup SeriesShapes :
        /\ Len(sh.who) = Len(sh.when)
        /\ sh.old < Len(sh.who)
        /\ \A i \in 1..(Len(sh.when) - 1) : sh.when[i] # NaN}

InitFrame ==
    /\ pc = "merged"
    /\ name_col \in BOOLEAN
    /\ store_exists = TRUE
    /\ \E sh \in FrameShapes, season \in {Season, NaN} :
         LET n == Len(sh.who)
         IN  /\ store_file = FrameStore(SubSeq(sh.who, 1, sh.old),
                                        SubSeq(sh.when, 1, sh.old), name_col)
             /\ new_data_raw = FramePayload(SubSeq(sh.who, sh.old + 1, n),
                                            SubSeq(sh.when, sh.old + 1, n),
                                            sh.old, season)
    /\ historical_df = read_csv(store_file)
    /\ new_game_logs = parse_espn_data(new_data_raw).logs
    /\ combined_df = merge(historical_df, new_game_logs, name_col)
    /\ Blank

NextFrame == Recalculate \/ DropNa

SpecFrame == InitFrame /\ [][NextFrame]_vars

----------------------------------------------------------------------------
(* Properties *)

\* the key of an observation: which game, which athlete
EventKey(row) == << row.game_id.v, row.athlete_id_1 >>

\* the last game log of the incoming list with the key of log k
LastCopy(logs, k) ==
    LET same == {j \in 1..Len(logs) : EventKey(logs[j]) = EventKey(logs[k])}
    IN  logs[CHOOSE j \in same : \A other \in same : other <= j]

\* C1: after the merge the combined frame holds exactly one row per key
\* (game, athlete), and for every key of the incoming list that row is the
\* copy supplied last in the incoming list, never the copy of the store.
C1_MergeCorrectionWins ==
    pc = "merged" =>
        /\ \A i, j \in 1..Len(combined_df) :
             i # j => EventKey(combined_df[i]) # EventKey(combined_df[j])
        /\ \A k \in 1..Len(new_game_logs) :
             \E i \in 1..Len(combined_df) :
                combined_df[i] = NewLogRow(LastCopy(new_game_logs, k), name_col)

\* the rows of df that must not reach the features of row r: r itself, every
\* later-dated row of its athlete and every row of another athlete
Excluded(df, r) ==
    {i \in 1..Len(df) :
        \/ i = r
        \/ df[i].athlete_id_1 # df[r].athlete_id_1
        \/ DateLess(df[r].game_date, df[i].game_date)}

\* df with the three statistics of the rows at `rows` changed
Perturbed(df, rows) ==
    [i \in 1..Len(df) |->
        IF i \in rows
        THEN [df[i] EXCEPT !.points = @ + 1000, !.rebounds = @ + 1000,
                           !.assists = @ + 1000]
        ELSE df[i]]

\* C2: the features of a row do not depend on the statistics of the row
\* itself, of any later-dated row of its athlete or of another athlete:
\* changing all of those in the merged frame, in whatever order its rows are,
\* leaves every feature of the row as update_features computed it.
C2_FeaturesAreCausal ==
    pc = "featured" =>
        \A k \in 1..Len(updated_df) :
            LET r == SortOrder(combined_df)[k]
                other == Perturbed(combined_df, Excluded(combined_df, r))
            IN  update_features(other)[k].feat = updated_df[k].feat

\* a later-dated row of an athlete stands before an earlier one in the merged
\* frame, and the earlier one got its features from rows before it
C2_Witness ==
    /\ pc = "featured"
    /\ \E i, j \in 1..Len(combined_df) :
         /\ i < j
         /\ combined_df[i].athlete_id_1 = combined_df[j].athlete_id_1
         /\ combined_df[i].game_date # NaN
         /\ combined_df[j].game_date < combined_df[i].game_date
    /\ \E k \in 2..Len(updated_df) :
         /\ FeaturesDefined(updated_df[k])
         /\ updated_df[k].athlete_id_1 = updated_df[k - 1].athlete_id_1
         /\ DateLess(updated_df[k - 1].game_date, updated_df[k].game_date)
         /\ \E l \in (k + 1)..Len(updated_df) :
              updated_df[l].athlete_id_1 = updated_df[k].athlete_id_1

\* the rows of the athlete of row k that stand before row k
Preceding(df, k) ==
    SelectSeq(SubSeq(df, 1, k - 1),
              LAMBDA r : r.athlete_id_1 = df[k].athlete_id_1)

LastN(rows, n) == SubSeq(rows, Len(rows) - n + 1, Len(rows))

RECURSIVE SumStat(_, _)
SumStat(rows, stat) ==
    IF rows = <<>> THEN 0 ELSE Head(rows)[stat] + SumStat(Tail(rows), stat)

\* C3: after update_features the rows of an athlete stand in date order, and
\* for the row at position i (0-based) of the athlete, avg_X_last_N is null
\* when i = 0 and else the arithmetic mean of X over the min(i, N) rows of the
\* athlete immediately before it.
C3_FeatureIsMeanOfPreceding ==
    pc = "featured" =>
        /\ \A j, k \in 1..Len(updated_df) :
             (j < k /\ updated_df[j].athlete_id_1 = updated_df[k].athlete_id_1)
                => ~DateLess(updated_df[k].game_date, updated_df[j].game_date)
        /\ \A k \in 1..Len(updated_df) : \A f \in Features :
             LET before == Preceding(updated_df, k)
                 m == Min(Len(before), f[2])
                 value == updated_df[k].feat[f]
             IN  IF m = 0
                 THEN value = NaN
                 ELSE /\ value # NaN
                      /\ value * m = MeanScale * SumStat(LastN(before, m), f[1])

\* a row with more than ten rows of its athlete before it: its three windows
\* give three different means
C3_Witness ==
    /\ pc = "featured"
    /\ \E k \in 1..Len(updated_df) :
         /\ Len(Preceding(updated_df, k)) > 10
         /\ updated_df[k].feat[<<"points", 3>>] # updated_df[k].feat[<<"points", 5>>]
         /\ updated_df[k].feat[<<"points", 5>>] # updated_df[k].feat[<<"points", 10>>]
         /\ updated_df[k].feat[<<"points", 10>>] * 11 #
                MeanScale * SumStat(Preceding(updated_df, k), "points")

\* C4: the write is the only mutation of the store file and the last step of
\* a run: in every state of a run before the write begins, and in every final
\* state of a run that did not write (the store file missing, the fetch
\* failed, no events, the parser raised, no game logs), the store file is what
\* it was when the run started.
C4_StoreUntouchedUnlessWritten ==
    pc \notin {"writing", "done_updated"} => store_file = run_start_file

\* a run whose parser raised, after an earlier run had written the store
C4_Witness ==
    /\ pc = "crashed"
    /\ writes = 1
    /\ store_file # <<>>
    /\ store_file = run_start_file

\* C5: after a run that wrote the store, no row of the store file has a null
\* in any of the nine avg_<stat>_last_<window> columns.
C5_NoNullFeatureCommitted ==
    pc = "done_updated" =>
        \A i \in 1..Len(store_file) : \A f \in Features :
            store_file[i].feat[f] # NaN

\* a run that wrote rows and dropped a row whose features were null
C5_Witness ==
    /\ pc = "done_updated"
    /\ store_file # <<>>
    /\ \E k \in 1..Len(combined_df) : combined_df[k].feat = NoFeatures
    /\ Len(store_file) < Len(combined_df)

\* an athlete record the contract lets through: an id and at least three
\* stats, the first three numeric
Resolvable(athlete) ==
    /\ athlete.id.t # "none"
    /\ athlete.statistics.present
    /\ athlete.statistics.list # <<>>
    /\ Len(athlete.statistics.list[1]) >= 3
    /\ \A k \in 1..3 : athlete.statistics.list[1][k].num

ResolvableIn(game) ==
    IF game.competitions.list = <<>> THEN 0
    ELSE Len(SelectSeq(Flatten(game.competitions.list[1].competitors), Resolvable))

\* C6: the parser returns without raising for every payload, with one game
\* log for exactly the athlete records that have an id and at least three
\* numeric stats; every other record is skipped.
C6_ParserSkipsMalformed ==
    /\ pc # "crashed"
    /\ pc = "parsed" =>
         Len(new_game_logs) =
            SumSeq([g \in 1..Len(new_data_raw.events) |->
                        ResolvableIn(new_data_raw.events[g])])

\* C7: whenever load_historical_data reads the store file, what it gets is
\* the complete store as it was before the run or the complete store the run
\* writes, never a part of it.
C7_ReaderSeesCompleteStore ==
    [][ (reader_view' # reader_view /\ reader_view'.state = "data") =>
            \/ reader_view'.rows = run_start_file
            \/ /\ pc \in {"writing", "done_updated"}
               /\ reader_view'.rows = to_csv(updated_df) ]_vars

\* C8: the job ends with status zero whenever the store was loaded and the
\* run reached one of its ends (updated, no new performances, no games or a
\* failed fetch), and with a non-zero status when the store file is missing.
C8_ExitStatus ==
    /\ pc \in {"done_updated", "done_no_logs", "done_no_games"} =>
         exit_status = 0
    /\ pc = "exit_no_file" => exit_status \notin {0, NaN}

\* C9: the commit step removes a row only when one of its features is null:
\* every row of the feature-computed frame whose nine features are all
\* defined is in the frame that is written.
C9_OnlyNullFeatureRowsDropped ==
    pc = "commit" =>
        LET computed == update_features(combined_df)
        IN  \A i \in 1..Len(computed) :
                (\A f \in Features : computed[i].feat[f] # NaN)
                    => \E j \in 1..Len(updated_df) : updated_df[j] = computed[i]

FileKey(cells) == << cells.game_id, cells.athlete_id_1 >>

\* the key of row i of the store the run started from is in no row of the
\* store the run wrote
Lost(i) ==
    ~\E j \in 1..Len(store_file) :
        FileKey(store_file[j]) = FileKey(run_start_file[i])

\* a run that wrote a store which an earlier run had written
LaterWrite == pc = "done_updated" /\ writes >= 2

Bearer(i) ==
    LET key == DedupKey(FrameRow(run_start_file[i]))
        same == {m \in 1..Len(combined_df) : DedupKey(combined_df[m]) = key}
    IN  CHOOSE m \in same : \A other \in same : other <= m

\* row m is the first row of its athlete in date order
Earliest(df, m) ==
    \A j \in 1..Len(df) :
        (j # m /\ df[j].athlete_id_1 = df[m].athlete_id_1) =>
            \/ DateLess(df[m].game_date, df[j].game_date)
            \/ df[m].game_date = df[j].game_date /\ m < j

\* row m of the merged frame came from the new game logs
Incoming(m) == combined_df[m].feat = NoFeatures

====
